---- MODULE Spec2Model ----
(***************************************************************************)
(* Learning-In-Public-Automation: the text-shaping pipeline, the output    *)
(* recorder and the two main() programs (the single-platform script.py and *)
(* the two-platform "Tweet/X Automation/script.py"), plus tweet.py's       *)
(* paraphrase_text.                                                        *)
(*                                                                         *)
(* A Python str is a sequence of one-character strings.  The output file   *)
(* is a sequence of tokens: the literal pieces save_output writes are one  *)
(* token each, body text is one token per character.                       *)
(***************************************************************************)
EXTENDS Integers, Sequences, FiniteSets, TLC

VARIABLES
    variant,        \* which program runs: "single" (script.py) or "dual" (X Automation/script.py)
    pc,             \* position of main()
    dry_run,        \* main: DRY_RUN env var lower-cased equals "true"
    yes,            \* main: args.yes
    tweet,          \* main: local variable tweet
    linkedin_post,  \* main: local variable linkedin_post
    posted,         \* texts passed to client.create_tweet, in order
    genCalls,       \* number of generate_content calls made
    exit_code,      \* value returned by main() to sys.exit; NotExited while running
    exc,            \* exception that left main() uncaught, or "none"
    input_file,     \* the input text file as main() finds it
    client,         \* main: local variable client, "none" until tweepy.Client(...) returned
    resp,           \* main: local variable resp, NotAsked until the prompt was read
    post_result,    \* what create_tweet did, "none" until it is called
    file,           \* content of the output file
    saveLog,        \* save_output calls made: arguments and whether the write succeeded
    fn,             \* function under call in the shaping harness
    arg,            \* harness: text handed to / returned by the service
    collapsed,      \* harness: local tweet after the while/replace loop
    ret             \* harness: outcome of the call

mainVars == <<variant, pc, dry_run, yes, tweet, linkedin_post, posted, genCalls, exit_code, exc,
              input_file, client, resp, post_result>>
fileVars == <<file, saveLog>>
unitVars == <<fn, arg, collapsed, ret>>
vars == <<variant, pc, dry_run, yes, tweet, linkedin_post, posted, genCalls, exit_code, exc,
          input_file, client, resp, post_result, file, saveLog, fn, arg, collapsed, ret>>

-----------------------------------------------------------------------------
(* Program constants *)

MAX_TWEET_LENGTH == 280

MAX_LINKEDIN_LENGTH == 3000

TWEET_PY_LIMIT == 280

TWEET_PY_CUT == 277

-----------------------------------------------------------------------------
(* Bounds of the model *)

\* longest exhaustively enumerated short text
MaxSmall == 6

\* how far around a ceiling the long texts reach
MaxSlack == 2

\* number of save_output calls in the recorder harness
MaxSaves == 2

-----------------------------------------------------------------------------
(* Characters and strings *)

NL == "\n"

SP == " "

TAB == "\t"

\* the single character U+2026
ELLIPSIS == "U+2026"

DOT == "."

Whitespace == {SP, NL, TAB}

Rep(c, n) == [i \in 1..n |-> c]

\* str.strip(): drop leading and trailing whitespace
strip(s) ==
    LET first == CHOOSE i \in 1..(Len(s) + 1) :
                    /\ (i = Len(s) + 1 \/ s[i] \notin Whitespace)
                    /\ \A j \in 1..(i - 1) : s[j] \in Whitespace
        last  == CHOOSE i \in 0..Len(s) :
                    /\ (i = 0 \/ s[i] \notin Whitespace)
                    /\ \A j \in (i + 1)..Len(s) : s[j] \in Whitespace
    IN  IF first > last THEN <<>> ELSE SubSeq(s, first, last)

\* str.rstrip(): drop trailing whitespace
rstrip(s) ==
    LET last == CHOOSE i \in 0..Len(s) :
                    /\ (i = 0 \/ s[i] \notin Whitespace)
                    /\ \A j \in (i + 1)..Len(s) : s[j] \in Whitespace
    IN  SubSeq(s, 1, last)

\* "\n\n\n" in s
HasTripleNewline(s) ==
    \E i \in 1..(Len(s) - 2) : s[i] = NL /\ s[i + 1] = NL /\ s[i + 2] = NL

TripleAt(s, i) == i + 2 <= Len(s) /\ s[i] = NL /\ s[i + 1] = NL /\ s[i + 2] = NL

\* s.find("\n\n\n", i): the first match at or after i, 0 when there is none
FindTriple(s, i) ==
    IF \E j \in i..(Len(s) - 2) : TripleAt(s, j)
    THEN CHOOSE j \in i..(Len(s) - 2) :
            TripleAt(s, j) /\ \A m \in i..(j - 1) : ~TripleAt(s, m)
    ELSE 0

\* s.replace("\n\n\n", "\n\n"): one left-to-right pass over non-overlapping
\* matches; each match is replaced and the scan resumes right after it
RECURSIVE ReplaceFrom(_, _)
ReplaceFrom(s, i) ==
    LET j == FindTriple(s, i)
    IN  IF j = 0 THEN SubSeq(s, i, Len(s))
        ELSE SubSeq(s, i, j - 1) \o <<NL, NL>> \o ReplaceFrom(s, j + 3)

ReplaceTripleNewline(s) == ReplaceFrom(s, 1)

\* a buggy loop body: the loop runs once only
CollapseOnce(s) == IF HasTripleNewline(s) THEN ReplaceTripleNewline(s) ELSE s

\* while "\n\n\n" in tweet: tweet = tweet.replace("\n\n\n", "\n\n")
RECURSIVE CollapseBlankLines(_)
CollapseBlankLines(s) ==
    IF HasTripleNewline(s) THEN CollapseBlankLines(ReplaceTripleNewline(s)) ELSE s

\* a buggy cut: keeps limit characters before the ellipsis
TruncateOffByOne(s, limit) ==
    IF Len(s) > limit THEN Append(SubSeq(s, 1, limit), ELLIPSIS) ELSE s

\* a buggy cut: no ellipsis is appended
TruncateNoEllipsis(s, limit) ==
    IF Len(s) > limit THEN SubSeq(s, 1, limit) ELSE s

\* if len(t) > limit: t = t[: limit - 1] + ELLIPSIS
Truncate(s, limit) ==
    IF Len(s) > limit THEN Append(SubSeq(s, 1, limit - 1), ELLIPSIS) ELSE s

\* tweet.replace("\n", " ")
NewlinesToSpaces(s) == [i \in 1..Len(s) |-> IF s[i] = NL THEN SP ELSE s[i]]

-----------------------------------------------------------------------------
(* The generation client *)

\* os.getenv values: unset, set to the empty string, set to a value
EnvValues == {"<unset>", "", "value"}

\* _get_env_var: raises EnvironmentError when the value is falsy
get_env_var_raises(val) == val \in {"<unset>", ""}

Ret(v, calls) == [exc |-> "none", val |-> v, calls |-> calls]

Raise(e, calls) == [exc |-> e, val |-> <<>>, calls |-> calls]

\* what client.models.generate_content does: raises, or returns a response
\* whose .text is a str or None
Response(raises, has_text, text) == [raises |-> raises, has_text |-> has_text, text |-> text]

TextResponse(t) == Response(FALSE, TRUE, t)

NetworkError == Response(TRUE, FALSE, <<>>)

NoTextResponse == Response(FALSE, FALSE, <<>>)

\* paraphrase_for_tweet's local tweet when the while loop has ended
TweetAfterLoop(text) == CollapseBlankLines(strip(text))

paraphrase_for_tweet(text, api_key, response) ==
    IF text = <<>> THEN Ret(<<>>, 0)
    ELSE IF get_env_var_raises(api_key) THEN Raise("EnvironmentError", 0)
    ELSE IF response.raises THEN Ret(<<>>, 1)
    ELSE IF ~response.has_text THEN Raise("AttributeError", 1)
    ELSE Ret(Truncate(TweetAfterLoop(response.text), MAX_TWEET_LENGTH), 1)

paraphrase_for_linkedin(text, api_key, response) ==
    IF text = <<>> THEN Ret(<<>>, 0)
    ELSE IF get_env_var_raises(api_key) THEN Raise("EnvironmentError", 0)
    ELSE IF response.raises THEN Ret(<<>>, 1)
    ELSE IF ~response.has_text THEN Raise("AttributeError", 1)
    ELSE Ret(Truncate(strip(response.text), MAX_LINKEDIN_LENGTH), 1)

truncate_tweet(text) ==
    IF text = <<>> THEN <<>>
    ELSE IF Len(text) <= MAX_TWEET_LENGTH THEN text
    ELSE Append(SubSeq(text, 1, MAX_TWEET_LENGTH - 1), ELLIPSIS)

\* tweet.py
paraphrase_text(text, api_key, response) ==
    IF get_env_var_raises(api_key) THEN Raise("RuntimeError", 0)
    ELSE IF response.raises THEN Raise("Exception", 1)
    ELSE IF ~response.has_text THEN Raise("AttributeError", 1)
    ELSE LET t == NewlinesToSpaces(strip(response.text))
         IN  Ret(IF Len(t) > TWEET_PY_LIMIT
                 THEN SubSeq(t, 1, TWEET_PY_CUT) \o <<DOT, DOT, DOT>>
                 ELSE t, 1)

-----------------------------------------------------------------------------
(* The output recorder *)

HEADER_OPEN == "===== Generated on "

HEADER_CLOSE == "Z =====\n"

NOTE_OPEN == "NOTE: "

TWEET_MARK == "--- X / TWEET ---\n"

LINKEDIN_MARK == "--- LINKEDIN POST ---\n"

\* datetime.utcnow().isoformat(): with and without a microsecond part
Timestamps == {"2024-01-01T00:00:00", "2024-01-01T00:00:00.000001"}

\* notes main() passes; <<>> stands for None (and for "", equally falsy)
NoNote == <<>>

NoteDryRun == <<"DRY RUN">>

NoteSkipped == <<"User skipped posting">>

NoteApiError == <<"Failed to post tweet (API error)">>

NoteUnexpected == <<"Failed to post tweet (unexpected error)">>

NotePosted(id) == <<"Tweet posted (id=", id, ")">>

NotePostedNoId == <<"Tweet posted (no id returned)">>

\* the list `contents` that save_output builds
SaveOutputContents(t, l, note, ts) ==
    <<HEADER_OPEN, ts, HEADER_CLOSE>>
    \o (IF note # <<>> THEN <<NOTE_OPEN>> \o note \o <<NL>> ELSE <<>>)
    \o <<TWEET_MARK>>
    \o rstrip(t) \o <<NL, NL>>
    \o <<LINKEDIN_MARK>>
    \o rstrip(l) \o <<NL>>
    \o <<NL>>

\* a buggy recorder: opens the file with mode "w"
save_output_truncating(f, t, l, note, ts, ok) ==
    IF ok THEN SaveOutputContents(t, l, note, ts) ELSE f

\* the file after save_output; ok = FALSE is the open/write raising, which
\* save_output catches and logs
save_output(f, t, l, note, ts, ok) ==
    IF ok THEN f \o SaveOutputContents(t, l, note, ts) ELSE f

SaveCall(f, t, l, note, ok) ==
    [tweet |-> t, linkedin_post |-> l, note |-> note, ok |-> ok, at |-> Len(f)]

-----------------------------------------------------------------------------
(* Reading the output file back: record blocks by header line *)

HeaderIdx(f) == {i \in 1..Len(f) : f[i] = HEADER_OPEN}

BlockEnd(f, i) ==
    LET later == {k \in HeaderIdx(f) : k > i}
    IN  IF later = {} THEN Len(f) ELSE (CHOOSE k \in later : \A m \in later : k <= m) - 1

Block(f, i) == SubSeq(f, i, BlockEnd(f, i))

MarkIdx(b, mark) == CHOOSE k \in 1..Len(b) : b[k] = mark /\ \A m \in 1..(k - 1) : b[m] # mark

\* a block as save_output lays it out: header line, optional note line, the
\* tweet section, a blank line, the LinkedIn section, a blank line
WellFormedBlock(b) ==
    /\ Len(b) >= 3
    /\ b[1] = HEADER_OPEN /\ b[2] \in Timestamps /\ b[3] = HEADER_CLOSE
    /\ Cardinality({k \in 1..Len(b) : b[k] = HEADER_OPEN}) = 1
    /\ Cardinality({k \in 1..Len(b) : b[k] = TWEET_MARK}) = 1
    /\ Cardinality({k \in 1..Len(b) : b[k] = LINKEDIN_MARK}) = 1
    /\ MarkIdx(b, TWEET_MARK) < MarkIdx(b, LINKEDIN_MARK) - 2
    /\ b[MarkIdx(b, LINKEDIN_MARK) - 1] = NL /\ b[MarkIdx(b, LINKEDIN_MARK) - 2] = NL
    /\ Len(b) >= MarkIdx(b, LINKEDIN_MARK) + 2
    /\ b[Len(b)] = NL /\ b[Len(b) - 1] = NL

BlockNote(b) ==
    IF b[4] = NOTE_OPEN THEN SubSeq(b, 5, MarkIdx(b, TWEET_MARK) - 2) ELSE <<>>

BlockTweet(b) == SubSeq(b, MarkIdx(b, TWEET_MARK) + 1, MarkIdx(b, LINKEDIN_MARK) - 3)

BlockLinkedin(b) == SubSeq(b, MarkIdx(b, LINKEDIN_MARK) + 1, Len(b) - 2)

IsPrefix(p, f) == Len(p) <= Len(f) /\ SubSeq(f, 1, Len(p)) = p

\* a record main() wrote in an earlier run
PriorRecord ==
    SaveOutputContents(<<"o", "l", "d">>, <<"p", "o", "s", "t">>, NoteDryRun, "2024-01-01T00:00:00")

InitialFiles == {<<>>, PriorRecord}

-----------------------------------------------------------------------------
(* The shaping harness: one call of one function on one text *)

Alphabet == {"a", NL, SP}

SmallTexts == UNION {[1..n -> Alphabet] : n \in 0..MaxSmall}

Affixes == {<<>>, <<"a">>, <<SP>>, <<NL>>, <<NL, NL>>, <<NL, NL, NL>>,
            <<"a", NL, NL, NL, "a">>, <<"a", NL, NL, NL, NL, "a">>}

\* texts whose length is within MaxSlack of limit
LongTexts(limit, fills) ==
    {p \o Rep(c, n - Len(p) - Len(q)) \o q : p \in Affixes, q \in Affixes, c \in fills,
                                            n \in (limit - MaxSlack)..(limit + MaxSlack)}

TweetTexts == SmallTexts \cup LongTexts(MAX_TWEET_LENGTH, {"a", NL})

LinkedinTexts == SmallTexts \cup LongTexts(MAX_LINKEDIN_LENGTH, {"a"})

Functions == {"paraphrase_for_tweet", "paraphrase_for_linkedin", "truncate_tweet",
              "paraphrase_text"}

InputsOf(f) == IF f = "paraphrase_for_linkedin" THEN LinkedinTexts ELSE TweetTexts

Pending == [exc |-> "pending", val |-> <<>>, calls |-> 0]

\* the raw input the harness passes: any non-empty text
RawSample == <<"D", "a", "y", SP, "5">>

NotExited == -1

NotAsked == <<"<not asked>">>

\* input.txt / text.txt: absent, or present with some content
Absent == [exists |-> FALSE, content |-> <<>>]

Present(c) == [exists |-> TRUE, content |-> c]

MainIdle ==
    /\ variant = "none" /\ pc = "idle" /\ dry_run = FALSE /\ yes = FALSE
    /\ tweet = <<>> /\ linkedin_post = <<>> /\ posted = <<>> /\ genCalls = 0
    /\ exit_code = NotExited /\ exc = "none"
    /\ input_file = Absent /\ client = "none" /\ resp = NotAsked /\ post_result = "none"

UnitIdle == fn = "none" /\ arg = <<>> /\ collapsed = <<>> /\ ret = Pending

InitShape ==
    /\ MainIdle
    /\ file = <<>> /\ saveLog = <<>>
    /\ fn \in Functions
    /\ arg \in InputsOf(fn)
    /\ collapsed = <<>>
    /\ ret = Pending

CallParaphraseForTweet ==
    /\ fn = "paraphrase_for_tweet" /\ ret = Pending
    /\ ret' = paraphrase_for_tweet(RawSample, "value", TextResponse(arg))
    /\ collapsed' = TweetAfterLoop(arg)
    /\ UNCHANGED <<fn, arg, mainVars, fileVars>>

CallParaphraseForLinkedin ==
    /\ fn = "paraphrase_for_linkedin" /\ ret = Pending
    /\ ret' = paraphrase_for_linkedin(RawSample, "value", TextResponse(arg))
    /\ UNCHANGED <<fn, arg, collapsed, mainVars, fileVars>>

CallTruncateTweet ==
    /\ fn = "truncate_tweet" /\ ret = Pending
    /\ ret' = Ret(truncate_tweet(arg), 0)
    /\ UNCHANGED <<fn, arg, collapsed, mainVars, fileVars>>

CallParaphraseText ==
    /\ fn = "paraphrase_text" /\ ret = Pending
    /\ ret' = paraphrase_text(RawSample, "value", TextResponse(arg))
    /\ UNCHANGED <<fn, arg, collapsed, mainVars, fileVars>>

NextShape ==
    \/ CallParaphraseForTweet
    \/ CallParaphraseForLinkedin
    \/ CallTruncateTweet
    \/ CallParaphraseText

SpecShape == InitShape /\ [][NextShape]_vars

-----------------------------------------------------------------------------
(* The recorder harness: any sequence of save_output calls on one path *)

RecorderTweets == {<<"a">>, <<"a", NL, NL, "b", SP>>}

RecorderPosts == {<<>>, <<"p", NL>>}

RecorderNotes == {NoNote, NoteDryRun}

InitRecorder ==
    /\ MainIdle
    /\ UnitIdle
    /\ file \in InitialFiles \cup {<<"x", NL>>}
    /\ saveLog = <<>>

CallSaveOutput ==
    /\ Len(saveLog) < MaxSaves
    /\ \E t \in RecorderTweets, l \in RecorderPosts, note \in RecorderNotes,
          ts \in Timestamps, ok \in BOOLEAN :
          /\ file' = save_output(file, t, l, note, ts, ok)
          /\ saveLog' = Append(saveLog, SaveCall(file, t, l, note, ok))
    /\ UNCHANGED <<mainVars, unitVars>>

NextRecorder == CallSaveOutput

SpecRecorder == InitRecorder /\ [][NextRecorder]_vars

-----------------------------------------------------------------------------------------------------------------------------------------------------
(* main(): both programs *)

\* os.getenv("DRY_RUN", "false").lower() == "true"
DryRunEnv == {"<unset>", "true", "TRUE", "false", "1"}

IsDryRun(v) == v \in {"true", "TRUE"}

PostingCredentials == {"X_API_KEY", "X_API_SECRET", "X_ACCESS_TOKEN", "X_ACCESS_SECRET"}

InputFiles == {Absent, Present(<<>>), Present(<<SP, NL>>), Present(<<NL>> \o RawSample \o <<NL>>)}

\* a buggy reader: f.read() without .strip()
read_text_unstripped(f) == f.content

\* read_text_from_file, when the file exists: f.read().strip()
read_text_from_file(f) == strip(f.content)

MainTweetTexts ==
    {<<>>, <<SP, NL>>, <<"D", "a", "y", SP, "5", NL, NL, NL, NL, "o", "k", NL>>,
     Rep("a", MAX_TWEET_LENGTH + 1)}

MainLinkedinTexts == {<<>>, <<SP, "p", "o", "s", "t", NL>>, Rep("b", MAX_LINKEDIN_LENGTH + 1)}

TweetResponses == {NetworkError, NoTextResponse} \cup {TextResponse(t) : t \in MainTweetTexts}

LinkedinResponses == {NetworkError, NoTextResponse} \cup {TextResponse(t) : t \in MainLinkedinTexts}

\* what the user types at the prompt
Answers == {<<"y">>, <<"Y">>, <<SP, "Y", SP>>, <<"n">>, <<>>, <<"y", "e", "s">>}

\* str.lower() on the characters the answers use
lower(s) == [i \in 1..Len(s) |-> IF s[i] = "Y" THEN "y" ELSE IF s[i] = "N" THEN "n" ELSE s[i]]

\* the local resp: the answer stripped and lower-cased, "n" when input() raises
ReadAnswer(tty, answer) == IF tty THEN lower(strip(answer)) ELSE <<"n">>

\* a buggy gate: anything but "n" confirms
ConfirmedUnlessNo(y, r) == IF y THEN TRUE ELSE r # <<"n">>

\* confirmed = args.yes; if not confirmed: confirmed = resp == "y"
Confirmed(y, r) == IF y THEN TRUE ELSE r = <<"y">>

\* a buggy first save: the note is never passed
SavedNoteMissing(d) == NoNote

\* note=("DRY RUN" if dry_run else None)
SavedNote(d) == IF d THEN NoteDryRun ELSE NoNote

\* client.create_tweet: raises, or returns a response with or without an id
PostOutcomes == {"TweepyException", "Exception", "id", "no_id"}

PostFailures == {"TweepyException", "Exception"}

TweetId == "1234"

PostNote(outcome) ==
    CASE outcome = "TweepyException" -> NoteApiError
      [] outcome = "Exception" -> NoteUnexpected
      [] outcome = "id" -> NotePosted(TweetId)
      [] OTHER -> NotePostedNoId

\* a buggy handler: the unexpected error falls through to return 0
PostExitCodeSwallowed(v, outcome) ==
    CASE outcome = "TweepyException" -> IF v = "dual" THEN 6 ELSE 5
      [] OTHER -> 0

\* the return statement main reaches after create_tweet
PostExitCode(v, outcome) ==
    CASE outcome = "TweepyException" -> IF v = "dual" THEN 6 ELSE 5
      [] outcome = "Exception" -> IF v = "dual" THEN 7 ELSE 6
      [] OTHER -> 0

Exit(code) == pc' = "done" /\ exit_code' = code /\ exc' = "none"

\* an exception nobody catches: traceback, interpreter exit status 1
Uncaught(e) == pc' = "done" /\ exit_code' = 1 /\ exc' = e

Init ==
    /\ UnitIdle
    /\ variant \in {"single", "dual"}
    /\ pc = IF variant = "single" THEN "init_client" ELSE "generate"
    /\ \E v \in DryRunEnv : dry_run = IsDryRun(v)
    /\ yes \in IF variant = "single" THEN {FALSE} ELSE BOOLEAN
    /\ tweet = <<>> /\ linkedin_post = <<>> /\ posted = <<>> /\ genCalls = 0
    /\ exit_code = NotExited /\ exc = "none"
    /\ input_file \in InputFiles
    /\ client = "none" /\ resp = NotAsked /\ post_result = "none"
    /\ file \in IF variant = "single" THEN {<<>>} ELSE InitialFiles
    /\ saveLog = <<>>

\* tweepy.Client(...) with the four credentials read by _get_env_var
InitClient ==
    /\ pc = "init_client"
    /\ \E creds \in [PostingCredentials -> EnvValues], client_ok \in BOOLEAN :
          IF \E c \in PostingCredentials : get_env_var_raises(creds[c])
          THEN Exit(2) /\ UNCHANGED client
          ELSE IF ~client_ok THEN Exit(3) /\ UNCHANGED client
          ELSE /\ client' = "ready"
               /\ pc' = IF variant = "single" THEN "generate" ELSE "confirm"
               /\ UNCHANGED <<exit_code, exc>>
    /\ UNCHANGED <<variant, dry_run, yes, tweet, linkedin_post, posted, genCalls,
                   input_file, resp, post_result, fileVars, unitVars>>

\* generate_learning_update(), as main calls it
GenerateLearningUpdate ==
    /\ pc = "generate"
    /\ \E key \in EnvValues, r1 \in TweetResponses, r2 \in LinkedinResponses :
          LET raw_text == read_text_from_file(input_file)
              t == paraphrase_for_tweet(raw_text, key, r1)
              l == paraphrase_for_linkedin(raw_text, key, r2)
          IN  IF ~input_file.exists \/ raw_text = <<>>
              THEN /\ tweet' = <<>> /\ linkedin_post' = <<>>
                   /\ pc' = "check"
                   /\ UNCHANGED <<genCalls, exit_code, exc>>
              ELSE IF t.exc # "none"
              THEN /\ Uncaught(t.exc)
                   /\ genCalls' = genCalls + t.calls
                   /\ UNCHANGED <<tweet, linkedin_post>>
              ELSE IF variant = "single"
              THEN /\ tweet' = t.val
                   /\ genCalls' = genCalls + t.calls
                   /\ pc' = "check"
                   /\ UNCHANGED <<linkedin_post, exit_code, exc>>
              ELSE IF l.exc # "none"
              THEN /\ Uncaught(l.exc)
                   /\ genCalls' = genCalls + t.calls + l.calls
                   /\ UNCHANGED <<tweet, linkedin_post>>
              ELSE /\ tweet' = t.val /\ linkedin_post' = l.val
                   /\ genCalls' = genCalls + t.calls + l.calls
                   /\ pc' = "check"
                   /\ UNCHANGED <<exit_code, exc>>
    /\ UNCHANGED <<variant, dry_run, yes, posted, input_file, client, resp, post_result,
                   fileVars, unitVars>>

\* a buggy check: the LinkedIn text is not looked at
EmptyCheckTweetOnly(v, t, l) == IF t = <<>> THEN 4 ELSE NotExited

\* if not tweet: return 4; if not linkedin_post: return 5 (two-platform main
\* only); NotExited when main goes on
EmptyCheck(v, t, l) ==
    IF t = <<>> THEN 4
    ELSE IF v = "dual" /\ l = <<>> THEN 5
    ELSE NotExited

\* tweet = truncate_tweet(tweet), then the empty checks
TruncateAndCheck ==
    /\ pc = "check"
    /\ tweet' = truncate_tweet(tweet)
    /\ IF EmptyCheck(variant, tweet', linkedin_post) # NotExited
       THEN Exit(EmptyCheck(variant, tweet', linkedin_post))
       ELSE /\ pc' = IF variant = "dual" THEN "save" ELSE "dry_run"
            /\ UNCHANGED <<exit_code, exc>>
    /\ UNCHANGED <<variant, dry_run, yes, linkedin_post, posted, genCalls,
                   input_file, client, resp, post_result, fileVars, unitVars>>

\* two-platform main: save_output(...), the previews, the dry-run return
SaveAndPreview ==
    /\ pc = "save"
    /\ \E ts \in Timestamps, ok \in BOOLEAN :
          /\ file' = save_output(file, tweet, linkedin_post, SavedNote(dry_run), ts, ok)
          /\ saveLog' = Append(saveLog,
                           SaveCall(file, tweet, linkedin_post, SavedNote(dry_run), ok))
    /\ IF dry_run THEN Exit(0)
       ELSE pc' = "init_client" /\ UNCHANGED <<exit_code, exc>>
    /\ UNCHANGED <<variant, dry_run, yes, tweet, linkedin_post, posted, genCalls,
                   input_file, client, resp, post_result, unitVars>>

\* single-platform main: the dry-run preview and return
DryRunPreview ==
    /\ pc = "dry_run"
    /\ IF dry_run THEN Exit(0)
       ELSE pc' = "post" /\ UNCHANGED <<exit_code, exc>>
    /\ UNCHANGED <<variant, dry_run, yes, tweet, linkedin_post, posted, genCalls,
                   input_file, client, resp, post_result, fileVars, unitVars>>

\* two-platform main: the confirmation gate
Confirm ==
    /\ pc = "confirm"
    /\ \E tty \in BOOLEAN, answer \in Answers, ts \in Timestamps, ok \in BOOLEAN :
          /\ resp' = IF yes THEN resp ELSE ReadAnswer(tty, answer)
          /\ IF Confirmed(yes, resp')
             THEN /\ pc' = "post"
                  /\ UNCHANGED <<exit_code, exc, fileVars>>
             ELSE /\ file' = save_output(file, tweet, linkedin_post, NoteSkipped, ts, ok)
                  /\ saveLog' = Append(saveLog,
                                   SaveCall(file, tweet, linkedin_post, NoteSkipped, ok))
                  /\ Exit(0)
    /\ UNCHANGED <<variant, dry_run, yes, tweet, linkedin_post, posted, genCalls,
                   input_file, client, post_result, unitVars>>

\* client.create_tweet(text=tweet) and what follows it
PostTweet ==
    /\ pc = "post"
    /\ posted' = Append(posted, tweet)
    /\ \E outcome \in PostOutcomes, ts \in Timestamps, ok \in BOOLEAN :
          /\ post_result' = outcome
          /\ Exit(PostExitCode(variant, outcome))
          /\ IF variant = "dual"
             THEN /\ file' = save_output(file, tweet, linkedin_post, PostNote(outcome), ts, ok)
                  /\ saveLog' = Append(saveLog,
                                   SaveCall(file, tweet, linkedin_post, PostNote(outcome), ok))
             ELSE UNCHANGED fileVars
    /\ UNCHANGED <<variant, dry_run, yes, tweet, linkedin_post, genCalls,
                   input_file, client, resp, unitVars>>

Next ==
    \/ InitClient
    \/ GenerateLearningUpdate
    \/ TruncateAndCheck
    \/ SaveAndPreview
    \/ DryRunPreview
    \/ Confirm
    \/ PostTweet

Spec == Init /\ [][Next]_vars

-----------------------------------------------------------------------------
(* Properties of the shaping functions, checked under SpecShape *)

Chars == Alphabet \cup {ELLIPSIS, DOT, TAB}

Called == ret # Pending

Ceiling(f) == IF f = "paraphrase_for_linkedin" THEN MAX_LINKEDIN_LENGTH ELSE MAX_TWEET_LENGTH

\* the newlines a reader would call excess: those with two newlines right before them
ExcessNewline(s, i) == s[i] = NL /\ i > 2 /\ s[i - 1] = NL /\ s[i - 2] = NL

\* s without its excess newlines: every run of three or more cut down to two,
\* everything else as it was
RECURSIVE CapRunsIn(_, _, _)
CapRunsIn(s, lo, hi) ==
    IF lo > hi THEN <<>>
    ELSE IF lo = hi THEN (IF ExcessNewline(s, lo) THEN <<>> ELSE <<s[lo]>>)
    ELSE LET mid == (lo + hi) \div 2
         IN  CapRunsIn(s, lo, mid) \o CapRunsIn(s, mid + 1, hi)

CapRuns(s) == CapRunsIn(s, 1, Len(s))

CappedLen(s) == Cardinality({i \in 1..Len(s) : ~ExcessNewline(s, i)})

\* C1: whatever text the service returns, each shaping function returns a
\* string, and it is no longer than the platform ceiling: 280 characters for
\* paraphrase_for_tweet, truncate_tweet and paraphrase_text, 3000 for
\* paraphrase_for_linkedin.
C1_CeilingRespected ==
    Called => /\ ret.exc = "none"
              /\ ret.val \in Seq(Chars)
              /\ Len(ret.val) <= Ceiling(fn)

\* C1 witness: paraphrase_for_linkedin has cut an over-long text down to the ceiling
C1_Witness ==
    /\ fn = "paraphrase_for_linkedin" /\ Called
    /\ Len(strip(arg)) > MAX_LINKEDIN_LENGTH
    /\ Len(ret.val) = MAX_LINKEDIN_LENGTH

\* C2 as stated: every text longer than 280 characters is shaped (collapse,
\* then truncate) into exactly 280 characters ending with the ellipsis.
C2_Original ==
    (fn = "paraphrase_for_tweet" /\ Called /\ Len(strip(arg)) > MAX_TWEET_LENGTH)
        => /\ Len(ret.val) = MAX_TWEET_LENGTH
           /\ ret.val[MAX_TWEET_LENGTH] = ELLIPSIS

\* C2 amended: every text that is still longer than 280 characters once its
\* blank-line runs are collapsed is shaped into exactly 280 characters ending
\* with the ellipsis, the first 279 being the first 279 of the collapsed text.
C2_LongAfterCollapse ==
    (fn = "paraphrase_for_tweet" /\ Called /\ CappedLen(strip(arg)) > MAX_TWEET_LENGTH)
        => /\ Len(ret.val) = MAX_TWEET_LENGTH
           /\ ret.val[MAX_TWEET_LENGTH] = ELLIPSIS
           /\ SubSeq(ret.val, 1, MAX_TWEET_LENGTH - 1)
                = SubSeq(CapRuns(strip(arg)), 1, MAX_TWEET_LENGTH - 1)

\* C2 witness: a text that loses newlines to the collapse and is truncated all the same
C2_Witness ==
    /\ fn = "paraphrase_for_tweet" /\ Called
    /\ CappedLen(strip(arg)) > MAX_TWEET_LENGTH
    /\ Len(strip(arg)) > CappedLen(strip(arg))
    /\ ret.val[MAX_TWEET_LENGTH] = ELLIPSIS

\* C9: the while/replace loop turns every run of three or more newlines into
\* exactly two and changes nothing else, on the text the service returned as
\* on its stripped form, and running it again on its result changes nothing.
C9_CollapseCapsRuns ==
    /\ CollapseBlankLines(arg) = CapRuns(arg)
    /\ CollapseBlankLines(CollapseBlankLines(arg)) = CollapseBlankLines(arg)
    /\ (fn = "paraphrase_for_tweet" /\ Called)
          => /\ collapsed = CapRuns(strip(arg))
             /\ CollapseBlankLines(collapsed) = collapsed

\* C9 witness: a text on which one replace pass leaves a run of three behind
C9_Witness ==
    /\ fn = "paraphrase_for_tweet" /\ Called
    /\ HasTripleNewline(ReplaceTripleNewline(strip(arg)))
    /\ ~HasTripleNewline(collapsed)
    /\ Len(collapsed) < Len(strip(arg))

-----------------------------------------------------------------------------
(* Properties of the output recorder, checked under SpecRecorder *)

\* C8: a save_output call whose write succeeds leaves the old content as a
\* prefix and adds exactly one record block after it: a header line with the
\* timestamp, the note line if a note was given, the tweet section and the
\* LinkedIn section; a call whose write fails leaves the file as it was.
C8_AppendOnly ==
    [][Len(saveLog') = Len(saveLog) + 1 =>
          LET call == saveLog'[Len(saveLog')]
              added == SubSeq(file', Len(file) + 1, Len(file'))
          IN  IF call.ok
              THEN /\ IsPrefix(file, file')
                   /\ Len(file') > Len(file)
                   /\ WellFormedBlock(added)
                   /\ BlockNote(added) = call.note
                   /\ BlockTweet(added) = rstrip(call.tweet)
                   /\ BlockLinkedin(added) = rstrip(call.linkedin_post)
              ELSE file' = file]_vars

\* C8 witness: two successful calls have left two blocks, one after the other,
\* behind a record that was in the file before
C8_Witness ==
    /\ Len(saveLog) = 2 /\ saveLog[1].ok /\ saveLog[2].ok
    /\ IsPrefix(PriorRecord, file)
    /\ saveLog[1].at = Len(PriorRecord)
    /\ saveLog[2].at > saveLog[1].at
    /\ HeaderIdx(file) = {1, saveLog[1].at + 1, saveLog[2].at + 1}
    /\ Block(file, saveLog[1].at + 1) # Block(file, saveLog[2].at + 1)

-----------------------------------------------------------------------------
(* Properties of main(), checked under Spec *)

Done == pc = "done"

\* where the record of the k-th save_output call ends
RecordEnd(k) == IF k < Len(saveLog) THEN saveLog[k + 1].at ELSE Len(file)

RecordOf(k) == SubSeq(file, saveLog[k].at + 1, RecordEnd(k))

\* the k-th save_output call of the run put a record with this note and the
\* run's tweet into the file
Recorded(k, note) ==
    /\ k \in 1..Len(saveLog)
    /\ saveLog[k].ok
    /\ WellFormedBlock(RecordOf(k))
    /\ BlockNote(RecordOf(k)) = note
    /\ BlockTweet(RecordOf(k)) = tweet

\* the k-th save_output call was made with this note and the run's texts; its
\* record is in the file if the write succeeded, and the file is as before if not
SaveAttempted(k, note) ==
    /\ k \in 1..Len(saveLog)
    /\ saveLog[k].note = note
    /\ saveLog[k].tweet = tweet
    /\ saveLog[k].linkedin_post = linkedin_post
    /\ IF saveLog[k].ok THEN Recorded(k, note) ELSE RecordEnd(k) = saveLog[k].at

ValidOutput == tweet # <<>> /\ (variant = "dual" => linkedin_post # <<>>)

EmptyInput == input_file.exists /\ strip(input_file.content) = <<>>

Declined == resp \notin {NotAsked, <<"y">>}

PostFailed == post_result \in PostFailures

\* C3 as stated: no generation failure (network error, response without text,
\* missing GEMINI_API_KEY) leaves main() by an uncaught exception.
C3_NoUncaughtException == Done => exc = "none"

\* C4 as stated: a dry run with valid generation output exits 0, never calls
\* create_tweet, and has appended a record with the line NOTE: DRY RUN.
C4_Original ==
    (Done /\ dry_run /\ ValidOutput)
        => /\ exit_code = 0
           /\ posted = <<>>
           /\ \E k \in 1..Len(saveLog) : Recorded(k, NoteDryRun)

\* C4 amended: a dry run with valid generation output exits 0 and never calls
\* create_tweet; the two-platform main has called save_output once, with the
\* note DRY RUN, and the record is in the file unless that write failed; the
\* single-platform main writes no output file.
C4_DryRun ==
    (Done /\ dry_run /\ ValidOutput)
        => /\ exit_code = 0
           /\ posted = <<>> /\ post_result = "none"
           /\ IF variant = "dual"
              THEN Len(saveLog) = 1 /\ SaveAttempted(1, NoteDryRun)
              ELSE saveLog = <<>> /\ file = <<>>

\* C4 witness: a two-platform dry run has ended with its DRY RUN record in the file
C4_Witness ==
    /\ Done /\ dry_run /\ variant = "dual" /\ exit_code = 0
    /\ Recorded(1, NoteDryRun)
    /\ posted = <<>>

\* C5 as stated: with an empty input file no generation call is made and the
\* process exits 4, whatever the posting credentials and the flags.
C5_Original ==
    (Done /\ EmptyInput) => exit_code = 4 /\ genCalls = 0 /\ tweet = <<>>

\* C5 amended: with an empty input file no generation call is made and nothing
\* is posted; the two-platform main exits 4 whatever the credentials and the
\* flags; the single-platform main exits 4 once its posting client is set up,
\* and 2 or 3 when it is not.
C5_EmptyInput ==
    (Done /\ EmptyInput)
        => /\ genCalls = 0 /\ tweet = <<>> /\ posted = <<>>
           /\ IF variant = "dual" THEN exit_code = 4
              ELSE IF client = "ready" THEN exit_code = 4
              ELSE exit_code \in {2, 3}

\* C5 witness: a single-platform dry run on a whitespace-only file has exited 4
C5_Witness ==
    /\ Done /\ EmptyInput /\ input_file.content # <<>>
    /\ variant = "single" /\ dry_run /\ client = "ready"
    /\ exit_code = 4

\* C6 as stated: create_tweet is called only in a run that is not dry and was
\* confirmed by --yes or by the answer y; a run whose prompt was answered
\* otherwise, or could not be read, posts nothing, writes the record
\* "User skipped posting" and exits 0.
C6_Original ==
    /\ posted # <<>> => ~dry_run /\ (yes \/ resp = <<"y">>)
    /\ (Done /\ Declined)
          => posted = <<>> /\ exit_code = 0 /\ Recorded(Len(saveLog), NoteSkipped)

\* C6 amended: in the two-platform main create_tweet is called only in a run
\* that is not dry and was confirmed by --yes or by an answer that is y once
\* stripped and lower-cased; a run whose prompt was answered otherwise, or
\* could not be read, posts nothing, calls save_output with the note
\* "User skipped posting" (the record is in the file unless the write failed)
\* and exits 0.  The single-platform main never asks: every run of it that is
\* not dry and has a tweet calls create_tweet.
C6_ConfirmationGate ==
    IF variant = "dual"
    THEN /\ posted # <<>> => ~dry_run /\ (yes \/ resp = <<"y">>)
         /\ (Done /\ Declined)
               => /\ ~yes /\ posted = <<>> /\ post_result = "none" /\ exit_code = 0
                  /\ Len(saveLog) = 2 /\ SaveAttempted(2, NoteSkipped)
    ELSE /\ resp = NotAsked
         /\ posted # <<>> => ~dry_run
         /\ (Done /\ ~dry_run /\ tweet # <<>>) => posted = <<tweet>>

\* C6 witness: a run without a terminal and without --yes has ended with the
\* skip record in the file and nothing posted
C6_Witness ==
    /\ variant = "dual" /\ Done /\ ~yes /\ resp = <<"n">>
    /\ posted = <<>> /\ exit_code = 0
    /\ Recorded(2, NoteSkipped)

\* C7 as stated: a failed create_tweet call, whichever exception it raised, is
\* recorded as a failure note in the output file and the process exits
\* non-zero; create_tweet is called at most once.
C7_Original ==
    /\ Len(posted) <= 1
    /\ (Done /\ PostFailed)
          => /\ exit_code \notin {0, NotExited}
             /\ Recorded(Len(saveLog), PostNote(post_result))

\* C7 amended: create_tweet is called at most once, and when it fails the
\* process exits non-zero (6 or 7 in the two-platform main, 5 or 6 in the
\* single-platform one); the two-platform main calls save_output with the
\* failure note, whose record is in the file unless that write failed; the
\* single-platform main writes no output file.
C7_PostFailure ==
    /\ Len(posted) <= 1
    /\ (Done /\ PostFailed)
          => /\ posted = <<tweet>>
             /\ exit_code = (IF variant = "dual" THEN 6 ELSE 5)
                             + (IF post_result = "Exception" THEN 1 ELSE 0)
             /\ IF variant = "dual"
                THEN Len(saveLog) = 2 /\ SaveAttempted(2, PostNote(post_result))
                ELSE saveLog = <<>> /\ file = <<>>

\* C7 witness: an unexpected posting error has been recorded and the run has exited 7
C7_Witness ==
    /\ variant = "dual" /\ Done /\ post_result = "Exception"
    /\ exit_code = 7
    /\ Recorded(2, NoteUnexpected)
    /\ Len(posted) = 1

WellShaped(b) ==
    /\ WellFormedBlock(b)
    /\ BlockTweet(b) # <<>> /\ Len(BlockTweet(b)) <= MAX_TWEET_LENGTH
    /\ BlockLinkedin(b) # <<>> /\ Len(BlockLinkedin(b)) <= MAX_LINKEDIN_LENGTH

\* C10 as stated: the two-platform main saves and posts only with both texts
\* non-empty (a run that exits 4 or 5 has saved and posted nothing), every
\* record in the file has a non-empty tweet of at most 280 characters and a
\* non-empty LinkedIn text of at most 3000, and the text given to create_tweet
\* is the tweet of the record the run saved before.
C10_Original ==
    variant = "dual" =>
        /\ (Done /\ exit_code \in {4, 5}) => saveLog = <<>> /\ posted = <<>>
        /\ (saveLog # <<>> \/ posted # <<>>) => tweet # <<>> /\ linkedin_post # <<>>
        /\ \A i \in HeaderIdx(file) : WellShaped(Block(file, i))
        /\ posted # <<>> => Recorded(1, NoNote) /\ posted = <<BlockTweet(RecordOf(1))>>

\* C10 amended: as stated, except that the text given to create_tweet is the
\* tweet the run passed to its first save_output call, which is the tweet of
\* the record in the file unless that write failed.
C10_SaveBeforePost ==
    variant = "dual" =>
        /\ (Done /\ exit_code \in {4, 5}) => saveLog = <<>> /\ posted = <<>>
        /\ (saveLog # <<>> \/ posted # <<>>) => tweet # <<>> /\ linkedin_post # <<>>
        /\ \A i \in HeaderIdx(file) : WellShaped(Block(file, i))
        /\ posted # <<>>
              => /\ posted = <<tweet>>
                 /\ Len(saveLog) = 2
                 /\ saveLog[1].tweet = tweet /\ saveLog[1].note = NoNote
                 /\ saveLog[1].ok
                       => Recorded(1, NoNote) /\ posted = <<BlockTweet(RecordOf(1))>>

\* C10 witness: a truncated tweet has been saved and then posted, next to a
\* truncated LinkedIn text
C10_Witness ==
    /\ variant = "dual" /\ Done /\ exit_code = 0
    /\ Len(tweet) = MAX_TWEET_LENGTH /\ Len(linkedin_post) = MAX_LINKEDIN_LENGTH
    /\ Recorded(1, NoNote)
    /\ posted = <<BlockTweet(RecordOf(1))>>

====
